---- MODULE Spec2Model ----
(***************************************************************************)
(* TCG-Player-Collection-Tracker: the price scraper.                       *)
(*                                                                         *)
(* scrape_multiple_products iterates scrape_tcg_price over a list of URLs. *)
(* scrape_tcg_price opens a Chrome session, navigates, looks the Market    *)
(* Price up in the live DOM (Selenium/XPath), falls back to a BeautifulSoup*)
(* parse of the page source, and quits the session in a finally clause.    *)
(*                                                                         *)
(* A document is a sequence of element nodes in document order; each node  *)
(* carries its tag, its class attribute, whether its text contains         *)
(* 'Market Price', and the index of its parent (0: child of the body).     *)
(* A text is a sequence of characters.                                     *)
(***************************************************************************)
EXTENDS Integers, Sequences, FiniteSets, TLC

VARIABLES urls, results, i, pc, driver, open, created, navigated,
          ret, tried, dom, header, container, price_element, raw_text,
          sleeps

\* The sheet side: the source worksheet (all_values), the update_cell calls
\* made, the rows appended to the archive worksheet, the staging file, the
\* value a function returned, the argument of extract_condition_from_url,
\* the pipeline steps started and the exit code of the process.
VARIABLES sheet, writes, archive, file, summary, url_arg, steps, exit_code,
          condition, card_map

sheet_vars == <<sheet, writes, archive, file, summary, url_arg, steps,
                exit_code, condition, card_map>>

vars == <<urls, results, i, pc, driver, open, created, navigated,
          ret, tried, dom, header, container, price_element, raw_text,
          sleeps, sheet_vars>>

-----------------------------------------------------------------------------
(* Bounds of the model *)

MaxUrls == 2

MaxNodes == 4

MaxTextLen == 2

-----------------------------------------------------------------------------
(* Values *)

Urls == {"u1", "u2"}

Chars == {"$", "4", " "}

None == 0

\* the exit code of a process that has not exited
NotExited == -1

NoResult == [status |-> "none"]

NotFoundMessage == "Market Price element not found after waiting"

\* str(e) of the exceptions the outer handler catches
Diagnostics == {"WebDriverException"}

UpperClass == "price-points__upper"

UpperHeaderClass == "price-points__upper__header"

TitleClass == "price-points__upper__header__title"

PriceClass == "price-points__upper__price"

\* the element shapes a page is built from
NodeKinds ==
    { [tag |-> "div",  class |-> UpperClass,       mp |-> FALSE],
      [tag |-> "div",  class |-> UpperHeaderClass, mp |-> FALSE],
      [tag |-> "span", class |-> TitleClass,       mp |-> TRUE],
      [tag |-> "span", class |-> "",               mp |-> TRUE],
      [tag |-> "span", class |-> PriceClass,       mp |-> FALSE] }

RECURSIVE Ancestors(_, _)
Ancestors(d, k) ==
    IF d[k].parent = 0 THEN {}
    ELSE {d[k].parent} \cup Ancestors(d, d[k].parent)

Descendants(d, c) == {k \in DOMAIN d : c \in Ancestors(d, k)}

\* the elements that are still open after the last node of d: the places
\* where the next node in document order can go
OpenParents(d) ==
    {0} \cup (IF Len(d) = 0 THEN {}
              ELSE {a \in {Len(d)} \cup Ancestors(d, Len(d)) : d[a].tag = "div"})

RECURSIVE DocsOfLen(_)
DocsOfLen(n) ==
    IF n = 0 THEN {<<>>}
    ELSE UNION { { Append(d, [tag |-> nk.tag, class |-> nk.class,
                              mp |-> nk.mp, parent |-> p])
                     : nk \in NodeKinds, p \in OpenParents(d) }
                 : d \in DocsOfLen(n - 1) }

Docs == UNION {DocsOfLen(n) : n \in 0..MaxNodes}

RECURSIVE SeqsOfLen(_, _)
SeqsOfLen(S, n) ==
    IF n = 0 THEN {<<>>}
    ELSE {Append(s, x) : s \in SeqsOfLen(S, n - 1), x \in S}

Texts == UNION {SeqsOfLen(Chars, n) : n \in 0..MaxTextLen}

UrlSeqs == UNION {SeqsOfLen(Urls, n) : n \in 0..MaxUrls}

Min(S) == CHOOSE x \in S : \A y \in S : x <= y

Max(S) == CHOOSE x \in S : \A y \in S : x >= y

First(S) == IF S = {} THEN None ELSE Min(S)

-----------------------------------------------------------------------------
(* Text operations *)

RECURSIVE LStrip(_)
LStrip(s) == IF s # <<>> /\ Head(s) = " " THEN LStrip(Tail(s)) ELSE s

RECURSIVE RStrip(_)
RStrip(s) ==
    IF s # <<>> /\ s[Len(s)] = " " THEN RStrip(SubSeq(s, 1, Len(s) - 1)) ELSE s

\* str.strip() and get_text(strip=True) of a single string
Strip(s) == RStrip(LStrip(s))

\* price_text.replace('$', ''): every occurrence is removed
RemoveDollar(s) == SelectSeq(s, LAMBDA c : c # "$")

-----------------------------------------------------------------------------
(* Element lookups *)

\* contains(@class, 'price-points__upper'): a substring test on the attribute
ClassContainsUpper(class) ==
    class \in {UpperClass, UpperHeaderClass, TitleClass, PriceClass}

\* //span[contains(text(), 'Market Price')], first match in document order
XPathHeader(d) == First({k \in DOMAIN d : d[k].tag = "span" /\ d[k].mp})

\* ancestor::div[contains(@class, 'price-points__upper')]: find_element
\* returns the first node of the result in document order
XPathContainer(d, h) ==
    First({a \in Ancestors(d, h) :
             d[a].tag = "div" /\ ClassContainsUpper(d[a].class)})

\* find_element(By.CLASS_NAME, ...) below the container
ClassNamePrice(d, c) ==
    First({k \in Descendants(d, c) : d[k].class = PriceClass})

\* soup.find without the class_ filter
SoupHeaderAnyClass(d) == First({k \in DOMAIN d : d[k].tag = "span" /\ d[k].mp})

\* soup.find('span', class_=..., string=lambda s: s and 'Market Price' in s)
SoupHeader(d) ==
    First({k \in DOMAIN d :
             d[k].tag = "span" /\ d[k].class = TitleClass /\ d[k].mp})

\* find_parent replaced by a search that keeps the outermost matching ancestor
FindParentOutermost(d, h) ==
    First({a \in Ancestors(d, h) : d[a].tag = "div" /\ d[a].class = UpperClass})

\* find_parent('div', class_='price-points__upper'): the closest such ancestor
FindParent(d, h) ==
    LET A == {a \in Ancestors(d, h) :
                d[a].tag = "div" /\ d[a].class = UpperClass}
    IN IF A = {} THEN None ELSE Max(A)

\* price_container.find('span', class_='price-points__upper__price')
SoupPrice(d, c) ==
    First({k \in Descendants(d, c) :
             d[k].tag = "span" /\ d[k].class = PriceClass})

-----------------------------------------------------------------------------
(* Results *)

SuccessResult(url, price_text) ==
    [status |-> "success", url |-> url, price |-> RemoveDollar(price_text),
     price_raw |-> price_text, section |-> "Market Price"]

\* an error result that also carries an (empty) price
ErrorResultWithPrice(url, message) ==
    [status |-> "error", url |-> url, message |-> message, price |-> <<>>]

ErrorResult(url, message) ==
    [status |-> "error", url |-> url, message |-> message]

-----------------------------------------------------------------------------
(* State machine *)

\* nothing of the sheet side is in use
SheetIdle ==
    /\ sheet = <<>>
    /\ writes = <<>>
    /\ archive = <<>>
    /\ file = None
    /\ summary = None
    /\ url_arg = <<>>
    /\ steps = <<>>
    /\ exit_code = NotExited
    /\ condition = None
    /\ card_map = <<>>

Init ==
    /\ urls \in UrlSeqs
    /\ results = <<>>
    /\ i = 0
    /\ pc = "loop"
    /\ driver = None
    /\ open = {}
    /\ created = 0
    /\ navigated = {}
    /\ ret = NoResult
    /\ tried = {}
    /\ dom = <<>>
    /\ header = None
    /\ container = None
    /\ price_element = None
    /\ raw_text = <<>>
    /\ sleeps = <<>>
    /\ SheetIdle

\* for i, url in enumerate(urls, 1): data = scrape_tcg_price(url) is entered
LoopNext ==
    /\ pc = "loop"
    /\ i < Len(urls)
    /\ i' = i + 1
    /\ pc' = "create"
    /\ driver' = None
    /\ UNCHANGED <<sheet_vars, urls, results, open, created, navigated, ret, tried, dom,
                   header, container, price_element, raw_text, sleeps>>

\* the loop is exhausted: return results
LoopDone ==
    /\ pc = "loop"
    /\ i = Len(urls)
    /\ pc' = "returned"
    /\ UNCHANGED <<sheet_vars, urls, results, i, driver, open, created, navigated, ret,
                   tried, dom, header, container, price_element, raw_text,
                   sleeps>>

\* driver = webdriver.Chrome(...) returns a new session
CreateDriver ==
    /\ pc = "create"
    /\ created' = created + 1
    /\ driver' = created + 1
    /\ open' = open \cup {created + 1}
    /\ pc' = "get"
    /\ UNCHANGED <<sheet_vars, urls, results, i, navigated, ret, tried, dom, header,
                   container, price_element, raw_text, sleeps>>

\* ChromeDriverManager().install() or webdriver.Chrome(...) raises: driver
\* stays None and the outer handler builds the result
CreateDriverRaises ==
    /\ pc = "create"
    /\ \E e \in Diagnostics : ret' = ErrorResult(urls[i], e)
    /\ pc' = "finally"
    /\ UNCHANGED <<sheet_vars, urls, results, i, driver, open, created, navigated, tried,
                   dom, header, container, price_element, raw_text, sleeps>>

\* driver.get(url) returns
Get ==
    /\ pc = "get"
    /\ navigated' = navigated \cup {<<driver, i>>}
    /\ pc' = "primary"
    /\ UNCHANGED <<sheet_vars, urls, results, i, driver, open, created, ret, tried, dom,
                   header, container, price_element, raw_text, sleeps>>

\* driver.get(url) raises
GetRaises ==
    /\ pc = "get"
    /\ navigated' = navigated \cup {<<driver, i>>}
    /\ \E e \in Diagnostics : ret' = ErrorResult(urls[i], e)
    /\ pc' = "finally"
    /\ UNCHANGED <<sheet_vars, urls, results, i, driver, open, created, tried, dom,
                   header, container, price_element, raw_text, sleeps>>

\* The inner try, lines 41-50: the wait for the header (None: the wait timed
\* out), the ancestor lookup and the price lookup, on the live document doc.
\* fault is any other exception of a WebDriver call.  When the try block is
\* left by an exception its locals are dead and the handler starts over.
PrimaryLookup ==
    /\ pc = "primary"
    /\ \E doc \in Docs, fault \in BOOLEAN :
         LET h == XPathHeader(doc)
             c == IF h = None THEN None ELSE XPathContainer(doc, h)
             p == IF c = None THEN None ELSE ClassNamePrice(doc, c)
         IN IF p # None /\ ~fault
            THEN /\ dom' = doc
                 /\ header' = h
                 /\ container' = c
                 /\ price_element' = p
                 /\ pc' = "primary_text"
            ELSE /\ dom' = <<>>
                 /\ header' = None
                 /\ container' = None
                 /\ price_element' = None
                 /\ pc' = "fallback"
    /\ tried' = tried \cup {"primary"}
    /\ UNCHANGED <<sheet_vars, urls, results, i, driver, open, created, navigated, ret,
                   raw_text, sleeps>>

\* price_text = price_element.text.strip(); the return statement of the try
PrimaryText ==
    /\ pc = "primary_text"
    /\ \E raw \in Texts :
         /\ raw_text' = raw
         /\ ret' = SuccessResult(urls[i], Strip(raw))
    /\ pc' = "finally"
    /\ UNCHANGED <<sheet_vars, urls, results, i, driver, open, created, navigated, tried,
                   dom, header, container, price_element, sleeps>>

\* price_element.text raises (the element went stale)
PrimaryTextRaises ==
    /\ pc = "primary_text"
    /\ dom' = <<>>
    /\ header' = None
    /\ container' = None
    /\ price_element' = None
    /\ pc' = "fallback"
    /\ UNCHANGED <<sheet_vars, urls, results, i, driver, open, created, navigated, ret,
                   tried, raw_text, sleeps>>

\* The inner handler: BeautifulSoup(driver.page_source) and the chain of
\* lookups on the snapshot doc; the not-found return when one finds nothing
FallbackLookup ==
    /\ pc = "fallback"
    /\ \E doc \in Docs :
         LET h == SoupHeader(doc)
             c == IF h = None THEN None ELSE FindParent(doc, h)
             p == IF c = None THEN None ELSE SoupPrice(doc, c)
         IN /\ dom' = doc
            /\ header' = h
            /\ container' = c
            /\ price_element' = p
            /\ IF p # None
               THEN /\ ret' = ret
                    /\ pc' = "fallback_text"
               ELSE /\ ret' = ErrorResult(urls[i], NotFoundMessage)
                    /\ pc' = "finally"
    /\ tried' = tried \cup {"fallback"}
    /\ UNCHANGED <<sheet_vars, urls, results, i, driver, open, created, navigated,
                   raw_text, sleeps>>

\* price_text = price_span.get_text(strip=True); the return of the handler
FallbackText ==
    /\ pc = "fallback_text"
    /\ \E raw \in Texts :
         /\ raw_text' = raw
         /\ ret' = SuccessResult(urls[i], Strip(raw))
    /\ pc' = "finally"
    /\ UNCHANGED <<sheet_vars, urls, results, i, driver, open, created, navigated, tried,
                   dom, header, container, price_element, sleeps>>

\* driver.page_source raises inside the inner handler: the outer handler
\* catches it
FallbackRaises ==
    /\ pc = "fallback"
    /\ \E e \in Diagnostics : ret' = ErrorResult(urls[i], e)
    /\ pc' = "finally"
    /\ UNCHANGED <<sheet_vars, urls, results, i, driver, open, created, navigated, tried,
                   dom, header, container, price_element, raw_text, sleeps>>

\* a loop that appends successful results only
ReturnToLoopDropsErrors ==
    /\ results' = (IF ret.status = "error" THEN results ELSE Append(results, ret))
    /\ pc' = "pace"
    /\ driver' = None
    /\ ret' = NoResult
    /\ tried' = {}
    /\ dom' = <<>>
    /\ header' = None
    /\ container' = None
    /\ price_element' = None
    /\ raw_text' = <<>>

\* a loop that calls scrape_tcg_price again for a URL whose result is an error
ReturnToLoopRetries ==
    /\ results' = (IF ret.status = "error" THEN results ELSE Append(results, ret))
    /\ pc' = (IF ret.status = "error" THEN "create" ELSE "pace")
    /\ driver' = None
    /\ ret' = NoResult
    /\ tried' = {}
    /\ dom' = <<>>
    /\ header' = None
    /\ container' = None
    /\ price_element' = None
    /\ raw_text' = <<>>

\* the call returns ret to the loop, which appends it
ReturnToLoop ==
    /\ results' = Append(results, ret)
    /\ pc' = "pace"
    /\ driver' = None
    /\ ret' = NoResult
    /\ tried' = {}
    /\ dom' = <<>>
    /\ header' = None
    /\ container' = None
    /\ price_element' = None
    /\ raw_text' = <<>>

\* finally: driver is None, nothing to quit
FinallyNoDriver ==
    /\ pc = "finally"
    /\ driver = None
    /\ ReturnToLoop
    /\ UNCHANGED <<sheet_vars, urls, i, open, created, navigated, sleeps>>

\* driver.quit() at the end of the success paths only, not in a finally clause
FinallyQuitOnSuccessOnly ==
    /\ pc = "finally"
    /\ driver # None
    /\ open' = (IF ret.status = "success" THEN open \ {driver} ELSE open)
    /\ ReturnToLoop
    /\ UNCHANGED <<sheet_vars, urls, i, created, navigated, sleeps>>

\* no driver.quit() at all
FinallyWithoutQuit ==
    /\ pc = "finally"
    /\ driver # None
    /\ open' = open
    /\ ReturnToLoop
    /\ UNCHANGED <<sheet_vars, urls, i, created, navigated, sleeps>>

\* finally: driver.quit() returns
FinallyQuit ==
    /\ pc = "finally"
    /\ driver # None
    /\ open' = open \ {driver}
    /\ ReturnToLoop
    /\ UNCHANGED <<sheet_vars, urls, i, created, navigated, sleeps>>

\* finally: driver.quit() raises; the exception replaces the return value and
\* leaves scrape_tcg_price and then scrape_multiple_products, whose loop has
\* no handler.  The browser may or may not be gone.
FinallyQuitRaises ==
    /\ pc = "finally"
    /\ driver # None
    /\ open' \in {open, open \ {driver}}
    /\ pc' = "raised"
    /\ ret' = NoResult
    /\ tried' = {}
    /\ dom' = <<>>
    /\ header' = None
    /\ container' = None
    /\ price_element' = None
    /\ raw_text' = <<>>
    /\ UNCHANGED <<sheet_vars, urls, results, i, driver, created, navigated, sleeps>>

\* if i < len(urls): time.sleep(random.uniform(11, 15))
Sleep ==
    /\ pc = "pace"
    /\ i < Len(urls)
    /\ sleeps' = Append(sleeps, i)
    /\ pc' = "loop"
    /\ UNCHANGED <<sheet_vars, urls, results, i, driver, open, created, navigated, ret,
                   tried, dom, header, container, price_element, raw_text>>

\* i = len(urls): no sleep after the last URL
SkipSleep ==
    /\ pc = "pace"
    /\ ~(i < Len(urls))
    /\ pc' = "loop"
    /\ UNCHANGED <<sheet_vars, urls, results, i, driver, open, created, navigated, ret,
                   tried, dom, header, container, price_element, raw_text,
                   sleeps>>

\* the earlier draft: time.sleep(1) after every URL
SleepDraft ==
    /\ pc = "pace"
    /\ sleeps' = Append(sleeps, i)
    /\ pc' = "loop"
    /\ UNCHANGED <<sheet_vars, urls, results, i, driver, open, created, navigated, ret,
                   tried, dom, header, container, price_element, raw_text>>

scrape_tcg_price ==
    \/ CreateDriver
    \/ CreateDriverRaises
    \/ Get
    \/ GetRaises
    \/ PrimaryLookup
    \/ PrimaryText
    \/ PrimaryTextRaises
    \/ FallbackLookup
    \/ FallbackText
    \/ FallbackRaises
    \/ FinallyNoDriver
    \/ FinallyQuit
    \/ FinallyQuitRaises

Next ==
    \/ LoopNext
    \/ LoopDone
    \/ scrape_tcg_price
    \/ Sleep
    \/ SkipSleep

\* TCG_URL_Scraper_Draft.py, the module the pipeline imports
Spec == Init /\ [][Next]_vars

NextDraft ==
    \/ LoopNext
    \/ LoopDone
    \/ scrape_tcg_price
    \/ SleepDraft

\* TCG-URL-Scraper-Draft.py, the earlier draft
SpecDraft == Init /\ [][NextDraft]_vars

-----------------------------------------------------------------------------
(* Properties *)

\* the results the loop has collected, and the one a return statement has
\* just built
Returned == {results[k] : k \in DOMAIN results}

Built == Returned \cup (IF pc = "finally" THEN {ret} ELSE {})

IsTitle(d, k) == d[k].tag = "span" /\ d[k].class = TitleClass /\ d[k].mp

IsUpper(d, k) == d[k].tag = "div" /\ d[k].class = UpperClass

IsPrice(d, k) == d[k].tag = "span" /\ d[k].class = PriceClass

\* the enclosing elements of h that satisfy Q and enclose no other enclosing
\* element of h that satisfies Q
Nearest(d, h, Q(_)) ==
    {a \in Ancestors(d, h) :
       /\ Q(a)
       /\ \A b \in Ancestors(d, h) : Q(b) => (b = a \/ b \in Ancestors(d, a))}

\* the snapshot's chain: the first title header, its nearest upper container,
\* the first price span below that container; None when a link is missing
SnapshotChain(d) ==
    LET H == {h \in DOMAIN d : IsTitle(d, h)}
    IN IF H = {} THEN None
       ELSE LET h == CHOOSE x \in H : \A y \in H : x <= y
                C == Nearest(d, h, LAMBDA a : IsUpper(d, a))
            IN IF C = {} THEN None
               ELSE LET c == CHOOSE x \in C : TRUE
                        P == {q \in DOMAIN d : c \in Ancestors(d, q) /\ IsPrice(d, q)}
                    IN IF P = {} THEN None
                       ELSE CHOOSE x \in P : \A y \in P : x <= y

\* C1: the batch result is index-aligned with the input: at every moment
\* results[k].url = urls[k] for the URLs done so far, and when
\* scrape_multiple_products returns there is one result per input URL.
C1_BatchAligned ==
    /\ Len(results) <= Len(urls)
    /\ \A k \in DOMAIN results : results[k].url = urls[k]
    /\ pc \in {"create", "get", "primary", "primary_text", "fallback",
               "fallback_text", "finally", "raised"} => Len(results) = i - 1
    /\ pc = "returned" => Len(results) = Len(urls)

C1_Witness ==
    /\ pc = "returned"
    /\ Len(urls) = 2
    /\ urls[1] = urls[2]
    /\ results[1].status = "error"
    /\ results[2].status = "success"

\* C2: no exception leaves scrape_tcg_price: every call ends in a returned
\* result, so the batch loop is never left by an exception.
C2_NeverEscapes == pc # "raised"

\* C3: once scrape_tcg_price has returned, the session it created is quit:
\* between calls and after the batch no session is open.
C3_SessionQuitOnReturn ==
    pc \in {"pace", "loop", "create", "returned"} => open = {}

C3_Witness ==
    /\ pc = "pace"
    /\ created = 2
    /\ Len(results) = 2
    /\ results[1].status = "success"
    /\ results[2].status = "error"
    /\ results[2].message = NotFoundMessage

\* C4: a result has status success or error; a success result has price and
\* price_raw and no message, an error result has message and no price.
C4_StatusDeterminesFields ==
    \A r \in Built :
       /\ r.status \in {"success", "error"}
       /\ r.status = "success" =>
            /\ {"price", "price_raw"} \subseteq DOMAIN r
            /\ "message" \notin DOMAIN r
       /\ r.status = "error" =>
            /\ "message" \in DOMAIN r
            /\ {"price", "price_raw"} \cap DOMAIN r = {}

C4_Witness ==
    /\ Len(results) = 2
    /\ results[1].status = "error"
    /\ results[1].message \in Diagnostics
    /\ results[2].status = "success"

\* C5 as stated: when the fallback has parsed a snapshot that holds some title
\* header with 'Market Price', some price-points__upper div around it and some
\* price span inside that div, the result is success.
HasMarkers(d) ==
    \E h \in DOMAIN d : \E c \in Ancestors(d, h) : \E q \in Descendants(d, c) :
       IsTitle(d, h) /\ IsUpper(d, c) /\ IsPrice(d, q)

C5_AnyMarkersSucceed ==
    (pc = "finally" /\ "fallback" \in tried /\ HasMarkers(dom))
       => ret.status = "success"

\* C5, amended: when the primary strategy has failed and the snapshot's chain
\* (first title header, nearest price-points__upper div around it, first price
\* span below that div) is complete, the fallback selects that span and builds
\* a success result whose price_raw is the span's text, stripped.
C5_FirstChainSucceeds ==
    ("fallback" \in tried /\ SnapshotChain(dom) # None) =>
       /\ "primary" \in tried
       /\ pc \in {"fallback_text", "finally"}
       /\ price_element = SnapshotChain(dom)
       /\ pc = "finally" =>
            /\ ret.status = "success"
            /\ ret.url = urls[i]
            /\ ret.price_raw = Strip(raw_text)

C5_Witness ==
    /\ pc = "finally"
    /\ "fallback" \in tried
    /\ SnapshotChain(dom) # None
    /\ Len(dom) = 4
    /\ ret.status = "success"
    /\ raw_text # ret.price_raw

\* C6: when the primary strategy has failed and a link of the snapshot's chain
\* is missing, the result is the error for the given url with exactly the
\* not-found message; that result is built only after both strategies ran.
C6_NotFoundAfterBoth ==
    /\ (pc = "finally" /\ "fallback" \in tried /\ SnapshotChain(dom) = None) =>
          /\ "primary" \in tried
          /\ ret = [status |-> "error", url |-> urls[i],
                    message |-> "Market Price element not found after waiting"]
    /\ (pc = "finally" /\ ret.status = "error" /\ ret.message = NotFoundMessage) =>
          tried = {"primary", "fallback"}

C6_Witness ==
    /\ pc = "finally"
    /\ ret.status = "error"
    /\ ret.message = NotFoundMessage
    /\ header # None
    /\ container = None
    /\ \E q \in DOMAIN dom : IsPrice(dom, q)

\* C7: the price element a strategy selects lies inside the nearest container
\* around the header it found (a div whose class contains
\* 'price-points__upper' for the primary strategy, a div of class
\* price-points__upper for the fallback).
C7_InsideNearestContainer ==
    /\ pc = "primary_text" =>
         \E c \in Nearest(dom, header,
                          LAMBDA a : dom[a].tag = "div"
                                     /\ ClassContainsUpper(dom[a].class)) :
            c \in Ancestors(dom, price_element)
    /\ pc = "fallback_text" =>
         \E c \in Nearest(dom, header, LAMBDA a : IsUpper(dom, a)) :
            c \in Ancestors(dom, price_element)

\* C8: the price_raw of a success result starts with '$', and its price is
\* price_raw without that first character.
C8_LeadingDollarRemoved ==
    \A r \in Built :
       r.status = "success" =>
          /\ r.price_raw # <<>>
          /\ Head(r.price_raw) = "$"
          /\ r.price = Tail(r.price_raw)

\* C9: at most one session is open at any moment, none is open when the next
\* one is about to be created, and no session navigates for two URLs.
C9_OneSessionAtATime ==
    /\ Cardinality(open) <= 1
    /\ pc = "create" => open = {}
    /\ \A x \in navigated : \A y \in navigated : x[1] = y[1] => x[2] = y[2]
    /\ \A x \in navigated : x[1] \in 1..created

C9_Witness ==
    /\ pc = "primary"
    /\ i = 2
    /\ navigated = {<<1, 1>>, <<2, 2>>}
    /\ open = {2}

\* C10: the runner sleeps after each URL but the last: after URL k for
\* k = 1..n-1, in that order, and when it returns it has slept n-1 times for
\* n >= 1 and never for an empty batch.
C10_DelaysBetween ==
    /\ \A k \in DOMAIN sleeps : sleeps[k] = k /\ k < Len(urls)
    /\ pc \in {"loop", "returned"} =>
         Len(sleeps) = (IF i = 0 THEN 0 ELSE IF i = Len(urls) THEN i - 1 ELSE i)

\* the sessions that navigated for input position k
SessionsOf(k) == {x[1] : x \in {y \in navigated : y[2] = k}}

\* C11 as stated: when the batch has returned, every input position has had
\* exactly one session creation and exactly one navigation.
C11_OneSessionPerPosition ==
    pc = "returned" =>
       /\ created = Len(urls)
       /\ \A k \in DOMAIN urls : Cardinality(SessionsOf(k)) = 1

\* C11, amended: scrape_tcg_price is entered once per input position, in
\* order; the call creates at most one session and navigates at most once
\* (not at all when the session could not be created), exactly once when its
\* result is a success; an error result is not followed by a second attempt,
\* and equal URLs at two positions get a session each.
C11_ExtractedOnce ==
    /\ created <= i
    /\ \A k \in DOMAIN urls : Cardinality(SessionsOf(k)) <= 1
    /\ \A k \in DOMAIN results :
          results[k].status = "success" => Cardinality(SessionsOf(k)) = 1
    /\ \A k \in DOMAIN urls : \A l \in DOMAIN urls :
          k # l => SessionsOf(k) \cap SessionsOf(l) = {}
    /\ \A x \in navigated : x[2] <= i
    /\ pc = "returned" => i = Len(urls) /\ Len(results) = i

C11_Witness ==
    /\ pc = "returned"
    /\ Len(urls) = 2
    /\ urls[1] = urls[2]
    /\ results[1].status = "error"
    /\ results[2].status = "success"
    /\ navigated = {<<1, 1>>, <<2, 2>>}

\* Every step of the batch is a call that returns or raises (the wait of the
\* primary strategy ends after 10 seconds at the latest), so the run keeps
\* stepping until no step is left.
SpecFair == Spec /\ WF_vars(Next)

\* C19 as stated: the run ends with scrape_multiple_products returning one
\* result per URL.
C19_EndsWithAllResults ==
    pc \in {"returned", "raised"} =>
       (pc = "returned" /\ Len(results) = Len(urls))

\* What does hold: the run ends, by the return of the batch or by the
\* exception of driver.quit().
C19_EventuallyEnds == <>(pc \in {"returned", "raised"})

-----------------------------------------------------------------------------
(* Sheets and results handed to the sinks *)

MaxRows == 2

MaxResults == 2

\* the scraper's locals while a sheet-side function runs
scraper_locals ==
    <<i, driver, open, created, navigated, ret, tried, dom, header, container,
      price_element, raw_text, sleeps>>

ScraperIdle ==
    /\ i = 0
    /\ driver = None
    /\ open = {}
    /\ created = 0
    /\ navigated = {}
    /\ ret = NoResult
    /\ tried = {}
    /\ dom = <<>>
    /\ header = None
    /\ container = None
    /\ price_element = None
    /\ raw_text = <<>>
    /\ sleeps = 0

\* texts of a URL cell: empty, a URL, the same URL after a blank, another URL
UrlCells == {<<>>, <<"a">>, <<" ", "a">>, <<"b">>}

\* the 'url' member of a result, when it has one
ResultUrls == {<<>>, <<"a">>, <<"b">>}

\* the text of the price element, after strip
RawPrices == {<<>>, <<"$", "4">>}

\* result dictionaries as scrape_results.json can hold them: those of
\* scrape_tcg_price, and ones lacking 'price_raw', the price or the 'url'
SinkResults ==
    {ErrorResult(<<"a">>, NotFoundMessage)}
    \cup {SuccessResult(u, q) : u \in ResultUrls, q \in RawPrices}
    \cup {[status |-> "success", url |-> u, price |-> <<"4">>] : u \in ResultUrls}
    \cup {[status |-> "success", url |-> u] : u \in ResultUrls}
    \cup {[status |-> "success", price |-> RemoveDollar(q), price_raw |-> q] :
             q \in RawPrices}
    \cup {[status |-> "success", price |-> <<"4">>], [status |-> "success"]}

SinkResultSeqs == UNION {SeqsOfLen(SinkResults, n) : n \in 0..MaxResults}

\* headers.index(name): the first column with that header, None when
\* list.index raises ValueError
IndexOf(headers, name) == First({k \in DOMAIN headers : headers[k] = name})

\* result.get(key) counts as truthy whenever the key is there
TruthyIfPresent(result, key) == key \in DOMAIN result

\* result.get(key) is truthy
Truthy(result, key) == key \in DOMAIN result /\ result[key] # <<>>

\* result.get('price_raw', result.get('price')) is truthy: the price is
\* consulted only when the dictionary has no 'price_raw'
HasPrice(result) ==
    IF "price_raw" \in DOMAIN result THEN result.price_raw # <<>>
    ELSE Truthy(result, "price")

\* result.get('price_raw', result.get('price')) of a result that has one
PriceOf(result) ==
    IF "price_raw" \in DOMAIN result THEN result.price_raw ELSE result.price

-----------------------------------------------------------------------------
(* write_prices_to_sheet *)

PriceHeaders == {<<"url", "Price">>, <<"Price", "url">>, <<"url">>, <<"Price">>}

\* data rows as get_all_values returns them: a URL cell and an old price cell
PriceRows == {<<>>} \cup {<<c>> : c \in UrlCells} \cup {<<c, <<>>>> : c \in UrlCells}

PriceSheets ==
    {<<>>} \cup
    {<<h>> \o rows : h \in PriceHeaders,
                     rows \in UNION {SeqsOfLen(PriceRows, n) : n \in 0..MaxRows}}

\* a result enters price_map
Usable(result) ==
    /\ result.status = "success"
    /\ Truthy(result, "url")
    /\ HasPrice(result)

\* price_map keeps the first price of a URL
PriceMapFirstWins(rs, n) ==
    LET ks == {k \in 1..n : Usable(rs[k])}
    IN  [u \in {rs[k].url : k \in ks} |->
            PriceOf(rs[Min({k \in ks : rs[k].url = u})])]

\* price_map after the first n results: a later result replaces the price
\* of an earlier one with the same url
PriceMap(rs, n) ==
    LET ks == {k \in 1..n : Usable(rs[k])}
    IN  [u \in {rs[k].url : k \in ks} |->
            PriceOf(rs[Max({k \in ks : rs[k].url = u})])]

\* the rows the loop looks at: those long enough to have a URL cell
RowsWithUrl(all_values, url_column_index) ==
    {r \in 2..Len(all_values) : url_column_index <= Len(all_values[r])}

\* rows whose cell matches without strip()
MatchedRowsUntrimmed(all_values, url_column_index, price_map) ==
    {r \in RowsWithUrl(all_values, url_column_index) :
        all_values[r][url_column_index] \in DOMAIN price_map}

MatchedRows(all_values, url_column_index, price_map) ==
    {r \in RowsWithUrl(all_values, url_column_index) :
        Strip(all_values[r][url_column_index]) \in DOMAIN price_map}

\* the elements of a finite set of integers, ascending
RECURSIVE Ascending(_)
Ascending(S) == IF S = {} THEN <<>> ELSE <<Min(S)>> \o Ascending(S \ {Min(S)})

\* the update_cell calls of the row loop, in row order
UpdateCalls(all_values, url_column_index, price_column_index, price_map) ==
    LET rows == Ascending(MatchedRows(all_values, url_column_index, price_map))
    IN  [k \in DOMAIN rows |->
            <<rows[k], price_column_index,
              price_map[Strip(all_values[rows[k]][url_column_index])]>>]

ErrorSummary(message) == [status |-> "error", message |-> message]

WriteSummary(updated_count, not_found_count, total) ==
    [status |-> "success", updated_rows |-> updated_count,
     not_found |-> not_found_count, total_results |-> total,
     message |-> <<"Successfully updated", updated_count, "rows">>]

\* what stops a sink before its first write
ApiFailures == {"Credentials file not found", "Authentication failed", "APIError"}

InitWrite ==
    /\ urls = <<>>
    /\ results \in SinkResultSeqs
    /\ pc = "write"
    /\ ScraperIdle
    /\ sheet \in PriceSheets
    /\ writes = <<>>
    /\ archive = <<>>
    /\ file = None
    /\ summary = None
    /\ url_arg = <<>>
    /\ steps = <<>>
    /\ exit_code = NotExited
    /\ condition = None
    /\ card_map = <<>>

\* the call with the API answering every request
write_prices_to_sheet ==
    /\ pc = "write"
    /\ pc' = "written"
    /\ IF sheet = <<>>
       THEN /\ summary' = ErrorSummary("Spreadsheet is empty")
            /\ writes' = writes
       ELSE LET headers == sheet[1]
                url_column_index == IndexOf(headers, "url")
                price_column_index == IndexOf(headers, "Price")
            IN  IF url_column_index = None
                THEN /\ summary' = ErrorSummary("Column 'url' not found")
                     /\ writes' = writes
                ELSE IF price_column_index = None
                THEN /\ summary' = ErrorSummary("Column 'Price' not found")
                     /\ writes' = writes
                ELSE LET price_map == PriceMap(results, Len(results))
                         calls == UpdateCalls(sheet, url_column_index,
                                              price_column_index, price_map)
                     IN  /\ writes' = calls
                         /\ summary' =
                               WriteSummary(Len(calls),
                                  Cardinality(RowsWithUrl(sheet, url_column_index))
                                     - Len(calls),
                                  Len(results))
    /\ UNCHANGED <<urls, results, scraper_locals, sheet, archive, file, url_arg,
                   steps, exit_code, condition, card_map>>

\* the call with a request that raises: the credentials check, the
\* authentication, the reading of the sheet, or one of the update_cell calls
write_prices_to_sheet_raises ==
    /\ pc = "write"
    /\ pc' = "written"
    /\ \/ /\ writes' = <<>>
          /\ \E f \in ApiFailures : summary' = ErrorSummary(f)
       \/ /\ sheet # <<>>
          /\ IndexOf(sheet[1], "url") # None
          /\ IndexOf(sheet[1], "Price") # None
          /\ LET calls == UpdateCalls(sheet, IndexOf(sheet[1], "url"),
                                      IndexOf(sheet[1], "Price"),
                                      PriceMap(results, Len(results)))
             IN  \E n \in 1..Len(calls) :
                    /\ writes' = SubSeq(calls, 1, n - 1)
                    /\ summary' = ErrorSummary("APIError")
    /\ UNCHANGED <<urls, results, scraper_locals, sheet, archive, file, url_arg,
                   steps, exit_code, condition, card_map>>

NextWrite == write_prices_to_sheet \/ write_prices_to_sheet_raises

SpecWrite == InitWrite /\ [][NextWrite]_vars

-----------------------------------------------------------------------------
(* Properties of write_prices_to_sheet *)

WriteDone == pc = "written" /\ summary.status = "success"

\* the price text a result offers: 'price_raw' when it has that member,
\* else 'price', else nothing
PriceText(r) ==
    IF "price_raw" \in DOMAIN r THEN r.price_raw
    ELSE IF "price" \in DOMAIN r THEN r.price ELSE <<>>

HasUrl(r) == "url" \in DOMAIN r /\ r.url # <<>>

\* a successful result with a URL and a price text
Good(r) == r.status = "success" /\ HasUrl(r) /\ PriceText(r) # <<>>

UrlColumn == IndexOf(sheet[1], "url")

PriceColumn == IndexOf(sheet[1], "Price")

\* the data rows that have a URL cell
UrlRows == {r \in 2..Len(sheet) : UrlColumn <= Len(sheet[r])}

TrimmedUrl(r) == Strip(sheet[r][UrlColumn])

\* the results that are good and carry the URL u
GoodWith(u) == {k \in DOMAIN results : Good(results[k]) /\ results[k].url = u}

WrittenRows == {writes[k][1] : k \in DOMAIN writes}

\* C12 as stated: every successful result (with a URL and a price text)
\* whose URL is in no row of the URL column is counted under not_found, and
\* every row whose trimmed URL is that of such a result is written.
C12_AbsentResultCounted ==
    WriteDone =>
       /\ summary.not_found >=
             Cardinality({k \in DOMAIN results :
                 /\ Good(results[k])
                 /\ \A r \in UrlRows : TrimmedUrl(r) # results[k].url})
       /\ \A r \in UrlRows :
             (\E k \in DOMAIN results :
                 Good(results[k]) /\ results[k].url = TrimmedUrl(r))
             => r \in WrittenRows

\* C12, amended: not_found counts the sheet rows whose trimmed URL is the
\* URL of no good result; a good result whose URL is in no row is counted
\* nowhere and no cell is written for it; every row whose trimmed URL is the
\* URL of a good result gets the price text of the last such result.
C12_RowsCountedNotResults ==
    WriteDone =>
       /\ summary.not_found =
             Cardinality({r \in UrlRows : GoodWith(TrimmedUrl(r)) = {}})
       /\ summary.total_results = Len(results)
       /\ \A r \in UrlRows :
             GoodWith(TrimmedUrl(r)) # {} =>
                \E k \in DOMAIN writes :
                   /\ writes[k][1] = r
                   /\ writes[k][2] = PriceColumn
                   /\ writes[k][3] =
                         PriceText(results[Max(GoodWith(TrimmedUrl(r)))])
       /\ \A k \in DOMAIN writes :
             /\ writes[k][1] \in UrlRows
             /\ GoodWith(TrimmedUrl(writes[k][1])) # {}

\* a good result whose URL is in no row goes uncounted while the row of
\* another result is written
C12_Witness ==
    /\ WriteDone
    /\ Len(results) = 2
    /\ Good(results[1])
    /\ Good(results[2])
    /\ \A r \in UrlRows : TrimmedUrl(r) # results[1].url
    /\ \E r \in UrlRows : TrimmedUrl(r) = results[2].url
    /\ Len(writes) = 1
    /\ summary.not_found = 0

\* C13 as stated: a result causes at most one cell write, also when its URL
\* is in several rows.
C13_OneWritePerResult ==
    WriteDone =>
       \A j \in DOMAIN results :
          Good(results[j]) =>
             Cardinality({k \in DOMAIN writes :
                 TrimmedUrl(writes[k][1]) = results[j].url}) <= 1

\* C13, amended: a row is written at most once, one cell, in the price
\* column, and rows are written in sheet order; a URL held by several rows
\* is written in each of them; the rows with a URL cell that match no good
\* result are exactly the ones counted as not_found, and none is written;
\* rows too short to have a URL cell are neither counted nor written.
C13_OneWritePerRow ==
    WriteDone =>
       /\ \A k \in DOMAIN writes : \A l \in DOMAIN writes :
             k < l => writes[k][1] < writes[l][1]
       /\ \A k \in DOMAIN writes : writes[k][2] = PriceColumn
       /\ summary.updated_rows = Len(writes)
       /\ summary.updated_rows + summary.not_found = Cardinality(UrlRows)
       /\ WrittenRows = {r \in UrlRows : GoodWith(TrimmedUrl(r)) # {}}

\* one result, written into two rows that hold its URL
C13_Witness ==
    /\ WriteDone
    /\ Cardinality({k \in DOMAIN results : Good(results[k])}) = 1
    /\ Len(writes) = 2
    /\ TrimmedUrl(2) = TrimmedUrl(3)
    /\ sheet[2] # sheet[3]

-----------------------------------------------------------------------------
(* extract_condition_from_url *)

MaxUrlLen == 6

\* a URL as a sequence of pieces: "p" is any run of plain characters, "%20"
\* an escaped blank, "//[" the start of a network location with an unclosed
\* bracket
UrlTokens == {"p", "?", "&", "=", "#", "Condition", "%20", "//["}

\* the URLs of n pieces
UrlTexts(n) == [1..n -> UrlTokens]

\* the value returned when there is no condition
NA == <<"N/A">>

Range(s) == {s[k] : k \in DOMAIN s}

\* the index of the first t in s, one past the end when there is none
FirstPos(s, t) == Min({k \in DOMAIN s : s[k] = t} \cup {Len(s) + 1})

\* s.split(t, 1): the part before the first t, and the part after it
Before(s, t) == SubSeq(s, 1, FirstPos(s, t) - 1)

After(s, t) == SubSeq(s, FirstPos(s, t) + 1, Len(s))

\* s.split(t)
RECURSIVE SplitOn(_, _)
SplitOn(s, t) ==
    IF t \notin Range(s) THEN <<s>>
    ELSE <<Before(s, t)>> \o SplitOn(After(s, t), t)

\* urlparse raises ValueError: the URL starts with a network location that
\* has '[' and no ']'
UrlParseRaises(url) == url # <<>> /\ url[1] = "//["

\* urlparse(url).query: the fragment is cut off at the first '#', then the
\* query starts after the first '?'
QueryOf(url) == After(Before(url, "#"), "?")

\* unquote
Unquote(s) == [k \in DOMAIN s |-> IF s[k] = "%20" THEN " " ELSE s[k]]

\* parse_qsl keeping the fields with a blank value
ParseQslKeepBlank(qs) ==
    LET fields == SelectSeq(SplitOn(qs, "&"), LAMBDA f : "=" \in Range(f))
    IN  [k \in DOMAIN fields |->
            <<Unquote(Before(fields[k], "=")), Unquote(After(fields[k], "="))>>]

\* the (name, value) pairs of parse_qs, in order: a field without '=' and a
\* field with a blank value are skipped
ParseQsl(qs) ==
    LET fields == SelectSeq(SplitOn(qs, "&"),
                            LAMBDA f : "=" \in Range(f) /\ After(f, "=") # <<>>)
    IN  [k \in DOMAIN fields |->
            <<Unquote(Before(fields[k], "=")), Unquote(After(fields[k], "="))>>]

\* extract_condition_from_url(url)
ExtractCondition(url) ==
    IF UrlParseRaises(url) THEN NA
    ELSE LET query_params == ParseQsl(QueryOf(url))
             ks == {k \in DOMAIN query_params :
                       query_params[k][1] = <<"Condition">>}
         IN  IF ks = {} THEN NA ELSE query_params[Min(ks)][2]

InitCondition ==
    /\ urls = <<>>
    /\ results = <<>>
    /\ pc = "condition"
    /\ ScraperIdle
    /\ sheet = <<>>
    /\ writes = <<>>
    /\ archive = <<>>
    /\ file = None
    /\ summary = None
    /\ \E n \in 0..MaxUrlLen : url_arg \in UrlTexts(n)
    /\ steps = <<>>
    /\ exit_code = NotExited
    /\ condition = None
    /\ card_map = <<>>

extract_condition_from_url ==
    /\ pc = "condition"
    /\ pc' = "condition_returned"
    /\ condition' = ExtractCondition(url_arg)
    /\ UNCHANGED <<urls, results, scraper_locals, sheet, writes, archive, file,
                   summary, url_arg, steps, exit_code, card_map>>

NextCondition == extract_condition_from_url

SpecCondition == InitCondition /\ [][NextCondition]_vars

-----------------------------------------------------------------------------
(* Properties of extract_condition_from_url *)

\* the fields of the query string: maximal runs without '&', as <<first, last>>
QueryFields(q) ==
    {f \in (1..Len(q)) \X (1..Len(q)) :
        /\ f[1] <= f[2]
        /\ \A k \in f[1]..f[2] : q[k] # "&"
        /\ f[1] = 1 \/ q[f[1] - 1] = "&"
        /\ f[2] = Len(q) \/ q[f[2] + 1] = "&"}

\* the fields that name the parameter 'Condition'
ConditionFields(q) ==
    {f \in QueryFields(q) :
        /\ q[f[1]] = "Condition"
        /\ f[1] = f[2] \/ q[f[1] + 1] = "="}

\* the value text of a 'Condition' field
FieldValue(q, f) == Unquote(SubSeq(q, f[1] + 2, f[2]))

FirstField(F) == CHOOSE f \in F : \A g \in F : f[1] <= g[1]

\* C18 as stated: the decoded value of the 'Condition' parameter when the
\* query string has one, 'N/A' when it has none.
C18_ValueOfCondition ==
    pc = "condition_returned" =>
       LET q == QueryOf(url_arg)
           F == ConditionFields(q)
       IN  condition = IF F = {} THEN NA ELSE FieldValue(q, FirstField(F))

\* C18, amended: the decoded value of the first 'Condition' parameter that
\* has a non-blank value; 'N/A' when there is none (no such parameter, or
\* only ones with a blank value or without '='), and 'N/A' for a URL that
\* urlparse rejects. The call always returns.
C18_NonBlankCondition ==
    /\ pc \in {"condition", "condition_returned"}
    /\ pc = "condition_returned" =>
          LET q == QueryOf(url_arg)
              F == {f \in ConditionFields(q) : f[2] >= f[1] + 2}
          IN  condition = IF F = {} \/ UrlParseRaises(url_arg) THEN NA
                          ELSE FieldValue(q, FirstField(F))

\* '?Condition=Near%20Mint' gives 'Near Mint'
C18_Witness ==
    /\ pc = "condition_returned"
    /\ url_arg = <<"?", "Condition", "=", "p", "%20", "p">>
    /\ condition = <<"p", " ", "p">>

-----------------------------------------------------------------------------
(* get_card_info_from_sheet and append_prices_to_sheet *)

\* a product URL that names a condition
CardUrl == <<"a", "?", "Condition", "=", "p">>

AppendResultUrls == {<<>>, CardUrl, <<"b">>}

AppendResults ==
    {ErrorResult(CardUrl, NotFoundMessage)}
    \cup {SuccessResult(u, q) : u \in AppendResultUrls, q \in RawPrices}
    \cup {[status |-> "success", url |-> CardUrl, price |-> <<"4">>]}
    \cup {[status |-> "success", price |-> <<"4">>, price_raw |-> <<"$", "4">>]}

AppendResultSeqs == UNION {SeqsOfLen(AppendResults, n) : n \in 0..MaxResults}

SourceUrlCells == {<<" ">>, CardUrl, <<" ">> \o CardUrl}

SourceNameCells == {<<"n">>, <<"m", " ">>}

SourceHeaders ==
    {<<"url", "Card Name", "Card Number">>, <<"url", "Card Number", "Card Name">>,
     <<"url", "Card Name">>, <<"Card Name", "Card Number">>}

\* rows of the source sheet, some shorter than the header
SourceRows ==
    {<<>>}
    \cup {<<u>> : u \in SourceUrlCells}
    \cup {<<u, n>> : u \in SourceUrlCells, n \in SourceNameCells}
    \cup {<<u, n, <<"1">>>> : u \in SourceUrlCells, n \in SourceNameCells}

SourceSheets ==
    {<<>>} \cup
    {<<h>> \o rows : h \in SourceHeaders,
                     rows \in UNION {SeqsOfLen(SourceRows, n) : n \in 0..MaxRows}}

\* the archive sheet before the call
ArchiveBefore == <<<<"Card Name", "Card Number", "Date", "Price", "Condition">>>>

\* datetime.now().strftime('%Y-%m-%d')
Today == "YYYY-MM-DD"

\* row[index].strip() if index is not None and index < len(row) else "N/A"
CellOrNA(row, index) ==
    IF index # None /\ index <= Len(row) THEN Strip(row[index]) ELSE NA

\* the rows that enter card_map: a URL cell that is not blank
CardRows(all_values, url_index) ==
    {r \in 2..Len(all_values) :
        /\ url_index <= Len(all_values[r])
        /\ Strip(all_values[r][url_index]) # <<>>}

CardInfo(all_values, r) ==
    [card_name |-> CellOrNA(all_values[r], IndexOf(all_values[1], "Card Name")),
     card_number |-> CellOrNA(all_values[r], IndexOf(all_values[1], "Card Number"))]

\* card_map keeps the first row of a URL
CardMapFirstRow(all_values) ==
    IF all_values = <<>> \/ IndexOf(all_values[1], "url") = None THEN <<>>
    ELSE LET url_index == IndexOf(all_values[1], "url")
             rows == CardRows(all_values, url_index)
         IN  [u \in {Strip(all_values[r][url_index]) : r \in rows} |->
                 CardInfo(all_values,
                    Min({r \in rows : Strip(all_values[r][url_index]) = u}))]

\* get_card_info_from_sheet when the sheet can be read: the trimmed URL of a
\* row maps to its trimmed name and number, a later row replacing an earlier
\* one with the same URL
CardMap(all_values) ==
    IF all_values = <<>> \/ IndexOf(all_values[1], "url") = None THEN <<>>
    ELSE LET url_index == IndexOf(all_values[1], "url")
             rows == CardRows(all_values, url_index)
         IN  [u \in {Strip(all_values[r][url_index]) : r \in rows} |->
                 CardInfo(all_values,
                    Max({r \in rows : Strip(all_values[r][url_index]) = u}))]

\* [card_name, card_number, today, price, condition]
ArchiveRow(result, cm) ==
    LET card_info == IF result.url \in DOMAIN cm THEN cm[result.url]
                     ELSE [card_name |-> NA, card_number |-> NA]
    IN  <<card_info.card_name, card_info.card_number, Today, PriceOf(result),
          ExtractCondition(result.url)>>

\* rows_to_append
RowsToAppend(rs, cm) ==
    LET kept == SelectSeq(rs, LAMBDA r : Usable(r))
    IN  [k \in DOMAIN kept |-> ArchiveRow(kept[k], cm)]

AppendSummary(appended_count) ==
    [status |-> "success", appended_rows |-> appended_count, date |-> Today,
     message |-> IF appended_count = 0 THEN "No successful results to append"
                 ELSE "Successfully appended rows"]

InitAppend ==
    /\ urls = <<>>
    /\ results \in AppendResultSeqs
    /\ pc = "append"
    /\ ScraperIdle
    /\ sheet \in SourceSheets
    /\ writes = <<>>
    /\ archive = ArchiveBefore
    /\ file = None
    /\ summary = None
    /\ url_arg = <<>>
    /\ steps = <<>>
    /\ exit_code = NotExited
    /\ condition = None
    /\ card_map = <<>>

\* the call with the archive sheet answering; the reading of the card
\* info may have failed, which leaves card_map empty
append_prices_to_sheet ==
    /\ pc = "append"
    /\ pc' = "appended"
    /\ \E info_read \in BOOLEAN :
          card_map' = IF info_read THEN CardMap(sheet) ELSE <<>>
    /\ archive' = archive \o RowsToAppend(results, card_map')
    /\ summary' = AppendSummary(Len(RowsToAppend(results, card_map')))
    /\ UNCHANGED <<urls, results, scraper_locals, sheet, writes, file, url_arg,
                   steps, exit_code, condition>>

\* the call with a request that raises after the card info: the credentials
\* check, the authentication, the opening of the archive sheet or append_rows
append_prices_to_sheet_raises ==
    /\ pc = "append"
    /\ pc' = "appended"
    /\ \E f \in ApiFailures :
          /\ summary' = ErrorSummary(f)
          /\ \E info_read \in BOOLEAN :
                /\ f = "Credentials file not found" => ~info_read
                /\ card_map' = IF info_read THEN CardMap(sheet) ELSE <<>>
    /\ UNCHANGED <<urls, results, scraper_locals, sheet, writes, archive, file,
                   url_arg, steps, exit_code, condition>>

NextAppend == append_prices_to_sheet \/ append_prices_to_sheet_raises

SpecAppend == InitAppend /\ [][NextAppend]_vars

-----------------------------------------------------------------------------
(* Properties of append_prices_to_sheet *)

AppendDone == pc = "appended" /\ summary.status = "success"

NewRows == SubSeq(archive, Len(ArchiveBefore) + 1, Len(archive))

\* the positions of the results that are good, ascending
GoodPositions == Ascending({k \in DOMAIN results : Good(results[k])})

SuccessPositions ==
    Ascending({k \in DOMAIN results : results[k].status = "success"})

\* the last source row whose trimmed URL is u, None when there is none
SourceRowOf(u) ==
    IF sheet = <<>> \/ UrlColumn = None THEN None
    ELSE LET R == {r \in UrlRows : TrimmedUrl(r) = u}
         IN  IF R = {} THEN None ELSE Max(R)

\* the first source row whose URL cell is exactly u
SourceRowExactly(u) ==
    IF sheet = <<>> \/ UrlColumn = None THEN None
    ELSE First({r \in UrlRows : sheet[r][UrlColumn] = u})

\* the trimmed cell of row r under the header name, 'N/A' when there is no
\* such row, column or cell
SourceCell(r, name) ==
    IF r = None THEN NA
    ELSE LET c == IndexOf(sheet[1], name)
         IN  IF c = None \/ c > Len(sheet[r]) THEN NA ELSE Strip(sheet[r][c])

\* C14 as stated: one new row per result with status 'success', in result
\* order, with the name and number of the source row holding exactly the
\* same URL.
C14_RowPerSuccess ==
    AppendDone =>
       /\ Len(NewRows) = Len(SuccessPositions)
       /\ \A k \in DOMAIN NewRows :
             (k <= Len(SuccessPositions) /\ HasUrl(results[SuccessPositions[k]]))
             => LET r == SourceRowExactly(results[SuccessPositions[k]].url)
                IN  /\ NewRows[k][1] = SourceCell(r, "Card Name")
                    /\ NewRows[k][2] = SourceCell(r, "Card Number")

\* C14, amended: one new row per successful result that has a URL and a
\* price text, in result order, after the rows the archive had; the row is
\* [name, number, today, price text, condition] with the trimmed name and
\* number of the last source row whose trimmed URL is the result's URL,
\* 'N/A' where that row, its cell or the column is missing, and 'N/A' for
\* both in every row when the card info could not be read.
C14_RowPerGoodResult ==
    AppendDone =>
       /\ SubSeq(archive, 1, Len(ArchiveBefore)) = ArchiveBefore
       /\ Len(NewRows) = Len(GoodPositions)
       /\ summary.appended_rows = Len(GoodPositions)
       /\ summary.date = Today
       /\ \A k \in DOMAIN NewRows :
             LET g == results[GoodPositions[k]]
                 r == IF DOMAIN card_map = {} THEN None ELSE SourceRowOf(g.url)
             IN  NewRows[k] = <<SourceCell(r, "Card Name"),
                                SourceCell(r, "Card Number"),
                                Today, PriceText(g), ExtractCondition(g.url)>>
       /\ DOMAIN card_map = {} \/
             DOMAIN card_map = {TrimmedUrl(r) : r \in UrlRows} \ {<<>>}

\* two good results give two rows; the card of the first is looked up in
\* the later of two source rows holding its URL, one of them after a blank;
\* the URL of the second is in no source row
C14_Witness ==
    /\ AppendDone
    /\ sheet = <<<<"url", "Card Name", "Card Number">>,
                 <<CardUrl, <<"n">>, <<"1">>>>,
                 <<<<" ">> \o CardUrl, <<"m", " ">>, <<"1">>>>>>
    /\ results = <<SuccessResult(CardUrl, <<"$", "4">>),
                   SuccessResult(<<"b">>, <<"$", "4">>)>>
    /\ NewRows = <<<<<<"m">>, <<"1">>, Today, <<"$", "4">>, <<"p">>>>,
                   <<NA, NA, Today, <<"$", "4">>, NA>>>>

-----------------------------------------------------------------------------
(* Both sinks run on the same results: the price writer, then the appender *)

TrackerHeader == <<"url", "Price", "Card Name", "Card Number">>

TrackerRows ==
    {<<u, <<>>, n, <<"1">>>> : u \in SourceUrlCells, n \in SourceNameCells}

TrackerSheets ==
    {<<TrackerHeader>> \o rows :
        rows \in UNION {SeqsOfLen(TrackerRows, n) : n \in 0..MaxRows}}

InitSinks ==
    /\ urls = <<>>
    /\ results \in AppendResultSeqs
    /\ pc = "write"
    /\ ScraperIdle
    /\ sheet \in TrackerSheets
    /\ writes = <<>>
    /\ archive = ArchiveBefore
    /\ file = None
    /\ summary = None
    /\ url_arg = <<>>
    /\ steps = <<>>
    /\ exit_code = NotExited
    /\ condition = None
    /\ card_map = <<>>

\* the appender script is started after the price writer has returned, and
\* loads the same scrape_results.json
append_main ==
    /\ pc = "written"
    /\ pc' = "append"
    /\ UNCHANGED <<urls, results, scraper_locals, sheet_vars>>

NextSinks == NextWrite \/ append_main \/ NextAppend

SpecSinks == InitSinks /\ [][NextSinks]_vars

-----------------------------------------------------------------------------
(* Properties of both sinks *)

\* a successful result that lacks a URL or a price text
Dropped(r) == r.status = "success" /\ ~Good(r)

\* a successful result whose url or 'price_raw' is empty or absent
DroppedAsStated(r) ==
    /\ r.status = "success"
    /\ \/ ~HasUrl(r)
       \/ "price_raw" \notin DOMAIN r
       \/ r.price_raw = <<>>

\* the update_cell calls the price writer makes for the results rs
CallsFor(rs) ==
    UpdateCalls(sheet, IndexOf(sheet[1], "url"), IndexOf(sheet[1], "Price"),
                PriceMap(rs, Len(rs)))

\* C20 as stated: the sinks act as if the successful results whose url or
\* 'price_raw' is empty or absent were not in the list, and no error is
\* reported for them.
C20_DroppedWithoutRawPrice ==
    LET rest == SelectSeq(results, LAMBDA r : ~DroppedAsStated(r))
    IN  /\ WriteDone => writes = CallsFor(rest)
        /\ AppendDone => NewRows = RowsToAppend(rest, card_map)
        /\ (pc \in {"written", "appended"} /\ summary.status = "error")
              => summary.message \in ApiFailures

\* C20, amended: the sinks act as if the successful results lacking a url
\* or a price text ('price_raw' when present, else 'price') were not in the
\* list: no cell is written and no row appended for them; a result without
\* 'price_raw' but with a price is used. The summary is an error only when
\* a request failed, never on account of such a result.
C20_DroppedWithoutPriceText ==
    LET rest == SelectSeq(results, LAMBDA r : ~Dropped(r))
    IN  /\ WriteDone =>
             /\ writes = CallsFor(rest)
             /\ \A k \in DOMAIN writes :
                   \E j \in DOMAIN results :
                      /\ Good(results[j])
                      /\ results[j].url = TrimmedUrl(writes[k][1])
                      /\ PriceText(results[j]) = writes[k][3]
        /\ AppendDone =>
             /\ NewRows = RowsToAppend(rest, card_map)
             /\ Len(NewRows) = Len(rest) -
                   Cardinality({k \in DOMAIN rest : rest[k].status # "success"})
        /\ (pc \in {"written", "appended"} /\ summary.status = "error")
              => summary.message \in ApiFailures

\* both sinks have run on a result with an empty price text followed by a
\* good one: one cell written, one row appended, no error
C20_Witness ==
    /\ AppendDone
    /\ Len(results) = 2
    /\ results[1] = SuccessResult(CardUrl, <<>>)
    /\ Good(results[2])
    /\ results[2].url = CardUrl
    /\ Len(sheet) = 2
    /\ TrimmedUrl(2) = CardUrl
    /\ writes = <<<<2, 2, PriceText(results[2])>>>>
    /\ Len(NewRows) = 1
    /\ NewRows[1][4] = PriceText(results[2])

-----------------------------------------------------------------------------
(* get_urls_from_sheet *)

ReaderHeaders == {<<"url", "Price">>, <<"Price", "url">>, <<"Price">>, <<"url", "url">>}

ReaderCells == {<<>>, <<" ">>, <<"a">>, <<" ", "a">>}

ReaderRows == UNION {SeqsOfLen(ReaderCells, n) : n \in 0..2}

ReaderSheets ==
    {<<>>} \cup
    {<<h>> \o rows : h \in ReaderHeaders,
                     rows \in UNION {SeqsOfLen(ReaderRows, n) : n \in 0..MaxRows}}

\* the list comprehension, returning the cells after strip()
ColumnCellsTrimmed(all_values, column_index) ==
    LET rows == SelectSeq(Tail(all_values),
                    LAMBDA row : /\ column_index <= Len(row)
                                 /\ Strip(row[column_index]) # <<>>)
    IN  [k \in DOMAIN rows |-> Strip(rows[k][column_index])]

\* [row[column_index] for row in all_values[1:]
\*    if column_index < len(row) and row[column_index].strip()]
ColumnCells(all_values, column_index) ==
    LET rows == SelectSeq(Tail(all_values),
                    LAMBDA row : /\ column_index <= Len(row)
                                 /\ Strip(row[column_index]) # <<>>)
    IN  [k \in DOMAIN rows |-> rows[k][column_index]]

InitReader ==
    /\ urls = <<>>
    /\ results = <<>>
    /\ pc = "read"
    /\ ScraperIdle
    /\ sheet \in ReaderSheets
    /\ writes = <<>>
    /\ archive = <<>>
    /\ file = None
    /\ summary = None
    /\ url_arg = <<>>
    /\ steps = <<>>
    /\ exit_code = NotExited
    /\ condition = None
    /\ card_map = <<>>

\* get_urls_from_sheet(spreadsheet_url, sheet_name, 'url') with the sheet
\* read
get_urls_from_sheet ==
    /\ pc = "read"
    /\ pc' = "read_done"
    /\ urls' = IF sheet = <<>> \/ IndexOf(sheet[1], "url") = None THEN <<>>
               ELSE ColumnCells(sheet, IndexOf(sheet[1], "url"))
    /\ UNCHANGED <<results, scraper_locals, sheet_vars>>

\* the credentials file is missing, no client is obtained, or a request
\* raises: the function returns []
get_urls_from_sheet_fails ==
    /\ pc = "read"
    /\ pc' = "read_failed"
    /\ urls' = <<>>
    /\ UNCHANGED <<results, scraper_locals, sheet_vars>>

NextReader == get_urls_from_sheet \/ get_urls_from_sheet_fails

SpecReader == InitReader /\ [][NextReader]_vars

-----------------------------------------------------------------------------
(* Properties of get_urls_from_sheet *)

NonBlank(cell) == \E k \in DOMAIN cell : cell[k] # " "

\* C17: with the sheet read, the list returned is the cells, as they are,
\* of the first column headed column_name that are not blank, in row order,
\* from the rows below the header; it is empty when no header equals
\* column_name, when the sheet is empty and when the sheet cannot be read;
\* the call always returns.
C17_NonBlankCellsOfColumn ==
    /\ pc \in {"read", "read_done", "read_failed"}
    /\ pc = "read_failed" => urls = <<>>
    /\ pc = "read_done" =>
          IF sheet = <<>> \/ "url" \notin Range(sheet[1]) THEN urls = <<>>
          ELSE LET c == Min({k \in DOMAIN sheet[1] : sheet[1][k] = "url"})
                   R == Ascending({r \in 2..Len(sheet) :
                           c <= Len(sheet[r]) /\ NonBlank(sheet[r][c])})
               IN  /\ Len(urls) = Len(R)
                   /\ \A k \in DOMAIN R : urls[k] = sheet[R[k]][c]

\* a blank cell and a short row are skipped, a cell with a leading blank
\* is returned as it is
C17_Witness ==
    /\ pc = "read_done"
    /\ sheet = <<<<"Price", "url">>, <<<<>>, <<" ", "a">>>>, <<<<"a">>>>>>
    /\ urls = <<<<" ", "a">>>>

-----------------------------------------------------------------------------
(* save_urls_to_file and load_urls_from_file *)

\* the keys an object in the staging file can have
JsonKeys == {"urls", "links"}

RECURSIVE JoinComma(_)
JoinComma(s) ==
    IF s = <<>> THEN <<>>
    ELSE IF Len(s) = 1 THEN s
    ELSE <<Head(s), ",">> \o JoinComma(Tail(s))

\* json.dump of a list of strings, as the pieces of the text
DumpArray(s) == <<"[">> \o JoinComma(s) \o <<"]">>

\* json.dump of {key: list}
DumpObject(key, s) == <<"{", key, ":">> \o DumpArray(s) \o <<"}">>

JsonTexts ==
    {DumpArray(s) : s \in UrlSeqs}
    \cup {DumpObject(key, s) : key \in JsonKeys, s \in UrlSeqs}

NoFile == [exists |-> FALSE, text |-> <<>>]

\* the staging file: missing, holding an array or an object, holding a
\* string, or holding the start of a text that was not written to the end
Files ==
    {NoFile}
    \cup {[exists |-> TRUE, text |-> t] : t \in JsonTexts}
    \cup UNION {{[exists |-> TRUE, text |-> SubSeq(t, 1, n)] :
                     n \in 0..(Len(t) - 1)} : t \in JsonTexts}
    \cup {[exists |-> TRUE, text |-> <<"u1">>]}

\* the text is a JSON array of strings
IsArrayText(t) ==
    /\ Len(t) >= 2
    /\ t[1] = "["
    /\ t[Len(t)] = "]"
    /\ Len(t) = 2 \/ Len(t) % 2 = 1
    /\ \A k \in 2..(Len(t) - 1) :
          IF k % 2 = 0 THEN t[k] \in Urls ELSE t[k] = ","

ArrayOfText(t) == [k \in 1..((Len(t) - 1) \div 2) |-> t[2 * k]]

\* the text is a JSON object with one member, an array
IsObjectText(t) ==
    /\ Len(t) >= 6
    /\ t[1] = "{"
    /\ t[2] \in JsonKeys
    /\ t[3] = ":"
    /\ t[Len(t)] = "}"
    /\ IsArrayText(SubSeq(t, 4, Len(t) - 1))

\* json.load: a list, a dict, another value, or JSONDecodeError
JsonLoad(t) ==
    IF IsArrayText(t) THEN [kind |-> "list", items |-> ArrayOfText(t)]
    ELSE IF IsObjectText(t)
    THEN [kind |-> "dict", key |-> t[2],
          value |-> ArrayOfText(SubSeq(t, 4, Len(t) - 1))]
    ELSE IF Len(t) = 1 /\ t[1] \in Urls THEN [kind |-> "str"]
    ELSE [kind |-> "JSONDecodeError"]

\* a loader that knows bare arrays only
LoadUrlsArrayOnly(f) ==
    IF ~f.exists THEN <<>>
    ELSE LET data == JsonLoad(f.text)
         IN  IF data.kind = "list" THEN data.items ELSE <<>>

\* load_urls_from_file
LoadUrls(f) ==
    IF ~f.exists THEN <<>>
    ELSE LET data == JsonLoad(f.text)
         IN  IF data.kind = "dict" /\ data.key = "urls" THEN data.value
             ELSE IF data.kind = "list" THEN data.items
             ELSE <<>>

InitFile ==
    /\ urls = <<>>
    /\ results = <<>>
    /\ pc = "file"
    /\ ScraperIdle
    /\ sheet = <<>>
    /\ writes = <<>>
    /\ archive = <<>>
    /\ file \in Files
    /\ summary = None
    /\ url_arg \in UrlSeqs
    /\ steps = <<>>
    /\ exit_code = NotExited
    /\ condition = None
    /\ card_map = <<>>

\* save_urls_to_file(url_arg)
save_urls_to_file ==
    /\ pc = "file"
    /\ pc' = "saved"
    /\ file' = [exists |-> TRUE, text |-> DumpObject("urls", url_arg)]
    /\ UNCHANGED <<urls, results, scraper_locals, sheet, writes, archive,
                   summary, url_arg, steps, exit_code, condition, card_map>>

\* the file cannot be opened for writing, or the writing stops: the
\* exception is printed and swallowed
save_urls_to_file_fails ==
    /\ pc = "file"
    /\ pc' = "save_failed"
    /\ \/ file' = file
       \/ \E n \in 0..(Len(DumpObject("urls", url_arg)) - 1) :
             file' = [exists |-> TRUE,
                      text |-> SubSeq(DumpObject("urls", url_arg), 1, n)]
    /\ UNCHANGED <<urls, results, scraper_locals, sheet, writes, archive,
                   summary, url_arg, steps, exit_code, condition, card_map>>

\* load_urls_from_file('urls.json')
load_urls_from_file ==
    /\ pc \in {"file", "saved", "save_failed"}
    /\ pc' = IF pc = "saved" THEN "reloaded" ELSE "loaded"
    /\ urls' = LoadUrls(file)
    /\ UNCHANGED <<results, scraper_locals, sheet_vars>>

NextFile == save_urls_to_file \/ save_urls_to_file_fails \/ load_urls_from_file

SpecFile == InitFile /\ [][NextFile]_vars

-----------------------------------------------------------------------------
(* Properties of the staging file *)

\* C16: a file holding a bare array of URLs and a file holding an object
\* whose 'urls' member is that array load as the same sequence, the array;
\* the file written by save_urls_to_file(urls) loads back as urls.
C16_BothShapesLoadAlike ==
    /\ pc \in {"loaded", "reloaded"} =>
          \A s \in UrlSeqs :
             (file.exists /\ file.text \in {DumpArray(s), DumpObject("urls", s)})
             => urls = s
    /\ pc = "reloaded" => urls = url_arg

\* a list of two URLs saved and loaded back
C16_Witness ==
    /\ pc = "reloaded"
    /\ url_arg = <<"u2", "u1">>
    /\ file.text = <<"{", "urls", ":", "[", "u2", ",", "u1", "]", "}">>
    /\ urls = <<"u2", "u1">>

-----------------------------------------------------------------------------
(* run_full_pipeline *)

\* what scrape_multiple_products can return for the URLs us: one result per
\* URL, each a success or an error
BatchResults(us) == [DOMAIN us -> {"success", "error"}]

ResultsOf(us, statuses) ==
    [k \in DOMAIN us |->
        IF statuses[k] = "success" THEN SuccessResult(us[k], <<"$", "4">>)
        ELSE ErrorResult(us[k], NotFoundMessage)]

StepEntry(name, ok) == [step |-> name, ok |-> ok]

\* the process always exits with 0
ExitCodeZero(success) == 0

\* sys.exit(0 if success else 1)
ExitCode(success) == IF success THEN 0 ELSE 1

InitPipeline ==
    /\ urls = <<>>
    /\ results = <<>>
    /\ pc = "step1"
    /\ ScraperIdle
    /\ sheet = <<>>
    /\ writes = <<>>
    /\ archive = <<>>
    /\ file = NoFile
    /\ summary = None
    /\ url_arg = <<>>
    /\ steps = <<>>
    /\ exit_code = NotExited
    /\ condition = None
    /\ card_map = <<>>

\* step 1: get_urls_from_sheet, which returns [] on every failure; an
\* empty list ends the run; otherwise the list is saved, a failure of the
\* saving being swallowed by save_urls_to_file
StepReadUrls ==
    /\ pc = "step1"
    /\ \E us \in UrlSeqs :
          /\ urls' = us
          /\ IF us = <<>>
             THEN /\ pc' = "return_false"
                  /\ file' = file
             ELSE /\ pc' = "step2"
                  /\ \E saved \in BOOLEAN :
                        file' = IF saved
                                THEN [exists |-> TRUE,
                                      text |-> DumpObject("urls", us)]
                                ELSE file
          /\ steps' = Append(steps, StepEntry("read", us # <<>>))
    /\ UNCHANGED <<results, scraper_locals, sheet, writes, archive, summary,
                   url_arg, exit_code, condition, card_map>>

\* step 2: scrape_multiple_products returns one result per URL and the
\* results are saved
StepScrape ==
    /\ pc = "step2"
    /\ pc' = "step3"
    /\ \E statuses \in BatchResults(urls) : results' = ResultsOf(urls, statuses)
    /\ steps' = Append(steps, StepEntry("scrape", TRUE))
    /\ UNCHANGED <<urls, scraper_locals, sheet, writes, archive, file, summary,
                   url_arg, exit_code, condition, card_map>>

\* step 2 with an exception: driver.quit() raising out of the batch, or the
\* results file not being written
StepScrapeRaises ==
    /\ pc = "step2"
    /\ pc' = "return_false"
    /\ steps' = Append(steps, StepEntry("scrape", FALSE))
    /\ UNCHANGED <<urls, results, scraper_locals, sheet, writes, archive, file,
                   summary, url_arg, exit_code, condition, card_map>>

\* step 3: append_prices_to_sheet, which returns a summary on every path; a
\* summary that is not a success ends the run with False
StepAppend ==
    /\ pc = "step3"
    /\ \E s \in {AppendSummary(Cardinality({k \in DOMAIN results :
                                   results[k].status = "success"}))}
                \cup {ErrorSummary(f) : f \in ApiFailures} :
          /\ summary' = s
          /\ pc' = IF s.status = "success" THEN "return_true" ELSE "return_false"
          /\ steps' = Append(steps, StepEntry("append", s.status = "success"))
    /\ UNCHANGED <<urls, results, scraper_locals, sheet, writes, archive, file,
                   url_arg, exit_code, condition, card_map>>

\* sys.exit(0 if success else 1)
Exit ==
    /\ pc \in {"return_true", "return_false"}
    /\ pc' = "exited"
    /\ exit_code' = ExitCode(pc = "return_true")
    /\ UNCHANGED <<urls, results, scraper_locals, sheet, writes, archive, file,
                   summary, url_arg, steps, condition, card_map>>

\* KeyboardInterrupt while run_full_pipeline runs: it is no Exception, so no
\* step catches it, and the main block exits with 1
Interrupt ==
    /\ pc \in {"step1", "step2", "step3", "return_true", "return_false"}
    /\ pc' = "exited"
    /\ exit_code' = 1
    /\ steps' = Append(steps, StepEntry("interrupt", FALSE))
    /\ UNCHANGED <<urls, results, scraper_locals, sheet, writes, archive, file,
                   summary, url_arg, condition, card_map>>

NextPipeline ==
    \/ StepReadUrls
    \/ StepScrape
    \/ StepScrapeRaises
    \/ StepAppend
    \/ Exit
    \/ Interrupt

SpecPipeline == InitPipeline /\ [][NextPipeline]_vars

-----------------------------------------------------------------------------
(* Properties of run_full_pipeline *)

StepOrder == <<"read", "scrape", "append">>

\* the steps that were started, without the interruption
StepsRun == SelectSeq(steps, LAMBDA e : e.step # "interrupt")

Interrupted == \E k \in DOMAIN steps : steps[k].step = "interrupt"

AllThreeSucceeded ==
    /\ Len(StepsRun) = 3
    /\ \A k \in 1..3 : StepsRun[k].ok

\* C15: the steps run in the order read, scrape, append, a step starting
\* only after every earlier one succeeded; an empty URL list fails the
\* read and an error summary fails the append; the process exits with 0
\* exactly when all three steps succeeded and the run was not interrupted,
\* and with 1 otherwise.
C15_OrderAndExitCode ==
    /\ Len(StepsRun) <= 3
    /\ \A k \in DOMAIN StepsRun :
          /\ StepsRun[k].step = StepOrder[k]
          /\ k < Len(StepsRun) => StepsRun[k].ok
    /\ \A k \in DOMAIN StepsRun :
          /\ StepsRun[k].step = "read" => (StepsRun[k].ok <=> urls # <<>>)
          /\ StepsRun[k].step = "append" =>
                (StepsRun[k].ok <=> summary.status = "success")
    /\ pc = "exited" =>
          /\ exit_code \in {0, 1}
          /\ exit_code = 0 <=> (AllThreeSucceeded /\ ~Interrupted)
    /\ pc # "exited" => exit_code = NotExited

\* a run that read two URLs, scraped them and got an error summary from
\* the append exits with 1
C15_Witness ==
    /\ pc = "exited"
    /\ exit_code = 1
    /\ Len(urls) = 2
    /\ Len(results) = 2
    /\ steps = <<StepEntry("read", TRUE), StepEntry("scrape", TRUE),
                 StepEntry("append", FALSE)>>
    /\ summary.status = "error"

-----------------------------------------------------------------------------
(* From the sheet to the sinks: read the URLs, scrape them, write and append *)

InitRoundTrip ==
    /\ urls = <<>>
    /\ results = <<>>
    /\ pc = "read"
    /\ ScraperIdle
    /\ sheet \in TrackerSheets
    /\ writes = <<>>
    /\ archive = ArchiveBefore
    /\ file = None
    /\ summary = None
    /\ url_arg = <<>>
    /\ steps = <<>>
    /\ exit_code = NotExited
    /\ condition = None
    /\ card_map = <<>>

\* scrape_multiple_products(urls) on the list the reader returned: one
\* result per URL, carrying the URL as it was passed; nothing is scraped
\* when the list is empty
scrape_sheet_urls ==
    /\ pc = "read_done"
    /\ urls # <<>>
    /\ pc' = "write"
    /\ \E statuses \in BatchResults(urls) : results' = ResultsOf(urls, statuses)
    /\ UNCHANGED <<urls, scraper_locals, sheet_vars>>

NextRoundTrip ==
    \/ NextReader
    \/ scrape_sheet_urls
    \/ NextWrite
    \/ append_main
    \/ NextAppend

SpecRoundTrip == InitRoundTrip /\ [][NextRoundTrip]_vars

-----------------------------------------------------------------------------
(* Properties of the round trip *)

\* the rows the reader took a URL from, in the order of the list returned
ReadRows ==
    Ascending({r \in UrlRows : NonBlank(sheet[r][UrlColumn])})

\* C21: every URL read from a sheet row and scraped successfully leads the
\* price writer to update that row, and the appender to the name and number
\* of that row, also when the cell has blanks around the URL.
C21_RoundTrip ==
    /\ WriteDone =>
          \A k \in DOMAIN results :
             results[k].status = "success" => ReadRows[k] \in WrittenRows
    /\ (AppendDone /\ DOMAIN card_map # {}) =>
          \A j \in DOMAIN NewRows :
             LET r == ReadRows[SuccessPositions[j]]
             IN  /\ NewRows[j][1] = SourceCell(r, "Card Name")
                 /\ NewRows[j][2] = SourceCell(r, "Card Number")

\* the same for the price writer alone, on sheets whose URL cells have no
\* blanks around the URL
C21_RoundTripOfTrimmedCells ==
    (WriteDone /\ \A r \in UrlRows : TrimmedUrl(r) = sheet[r][UrlColumn]) =>
       \A k \in DOMAIN results :
          results[k].status = "success" => ReadRows[k] \in WrittenRows

====
